---- MODULE Spec2Model ----
(***************************************************************************)
(* dimAns: exact, dimensionally checked quantity arithmetic.               *)
(*                                                                         *)
(* The library is purely functional, so the state machine is a client      *)
(* that holds two unit operands (u, v) and two numeric operands (x, y),    *)
(* applies one library call to them and records what the call returned     *)
(* or raised.  Numbers are Python Fractions, kept normalised.              *)
(* A second client (UnitSpec) exercises the unit algebra alone, applying   *)
(* short sequences of unit operations to the unit it holds.                *)
(* A third specification (CliSpec) is the calculator session of            *)
(* dimans.cli: the input widget, its recall list, the evaluator history    *)
(* and the results pane, driven by keys and the messages they post.        *)
(***************************************************************************)
EXTENDS Integers, Sequences, FiniteSets, TLC

VARIABLES u, v, x, y, op, res

\* the calculator session: the input widget's text and marks, the label under
\* it, the widget's submitted lines and recall cursor, the evaluator's
\* history, the results pane's list and rows, the messages posted and not
\* yet handled by the app, and whether the app still runs
VARIABLES input_value, classes, label, history, history_index, evaluator_results,
          results, mounted, messages, running

\* the text typed into the command palette
VARIABLES query

session == <<input_value, classes, label, history, history_index, evaluator_results,
             results, mounted, messages, running>>

vars == <<u, v, x, y, op, res, session, query>>

(***************************************************************************)
(* Bounds of the exploration                                               *)
(***************************************************************************)
MaxNum == 2

\* the longest sequence of unit operations applied to one unit
MaxOps == 2

\* the largest numerator or denominator of a factor that is raised to a power
MaxFactor == 10000

\* the most lines the input widget keeps for recall
MaxHistory == 2

\* the most results committed in one session
MaxResults == 2

\* the most messages posted and not yet handled
MaxMessages == 2

\* the longest query typed into the command palette
MaxQuery == 4

(***************************************************************************)
(* fractions.Fraction: normalised numerator / positive denominator         *)
(***************************************************************************)
Abs(n) == IF n < 0 THEN -n ELSE n

RECURSIVE Gcd(_, _)
Gcd(m, n) == IF n = 0 THEN m ELSE Gcd(n, m % n)

Fraction(n, d) ==
    LET g == Gcd(Abs(n), Abs(d))
        s == IF d < 0 THEN -1 ELSE 1
    IN  [n |-> s * (n \div g), d |-> s * (d \div g)]

Int2Fr(n) == [n |-> n, d |-> 1]

Zero == Int2Fr(0)

One == Int2Fr(1)

FrNeg(a) == [n |-> -a.n, d |-> a.d]

FrAdd(a, b) ==
    LET g == Gcd(a.d, b.d)
    IN  Fraction(a.n * (b.d \div g) + b.n * (a.d \div g), (a.d \div g) * b.d)

FrSub(a, b) == FrAdd(a, FrNeg(b))

FrMul(a, b) ==
    LET g1 == Gcd(Abs(a.n), b.d)
        g2 == Gcd(Abs(b.n), a.d)
    IN  Fraction((a.n \div g1) * (b.n \div g2), (a.d \div g2) * (b.d \div g1))

\* 1 / a, for a # 0 (the caller raises ZeroDivisionError otherwise)
FrInv(a) == Fraction(a.d, a.n)

FrDiv(a, b) == FrMul(a, FrInv(b))

FrLt(a, b) == a.n * b.d < b.n * a.d

FrGt(a, b) == FrLt(b, a)

RECURSIVE FrPowNat(_, _)
FrPowNat(a, k) == IF k = 0 THEN One ELSE FrMul(a, FrPowNat(a, k - 1))

\* a ** e (Fraction.__pow__).  An integral exponent is computed exactly.  A
\* non-integral exponent makes Python compute float(a) ** float(e): for a = 1
\* that is 1.0, which compares equal to 1; for any other base the float is
\* kept symbolic, equal only to the same power of the same base.
FrPow(a, e) ==
    IF e.d = 1
    THEN IF e.n >= 0 THEN FrPowNat(a, e.n) ELSE FrPowNat(FrInv(a), -e.n)
    ELSE IF a = One THEN One ELSE [float |-> "pow", base |-> a, exp |-> e]

(***************************************************************************)
(* Values                                                                  *)
(***************************************************************************)
None == "<None>"

Raise(exc) == [kind |-> "raise", exc |-> exc]

IsRaise(r) == r.kind = "raise"

(***************************************************************************)
(* Dimension and the declared BaseUnit objects.  A BaseUnit is an object:  *)
(* id is its identity (no two declarations share one).                     *)
(***************************************************************************)
BaseUnit(id, symbol, dimension, factor) ==
    [kind |-> "BaseUnit", id |-> id, symbol |-> symbol,
     dimension |-> dimension, factor |-> factor]

BaseUnit_si_factor(b) == b.factor

\* BaseUnit.using(ref, symbol, factor)
BaseUnit_using(id, ref, symbol, factor) ==
    BaseUnit(id, symbol, ref.dimension, FrMul(BaseUnit_si_factor(ref), factor))

meter == BaseUnit("meter", "m", "length", Int2Fr(1))

foot == BaseUnit_using("foot", meter, "ft", Fraction(381, 1250))

kelvin == BaseUnit("kelvin", "K", "temperature", Int2Fr(1))

base_dim_1 == BaseUnit("base_dim_1", "base_dim_1", "dim_1", Int2Fr(1))

base_dim_1_alt == BaseUnit("base_dim_1_alt", "base_dim_1_alt", "dim_1", Int2Fr(1))

BaseUnits == {meter, foot, kelvin, base_dim_1, base_dim_1_alt}

(***************************************************************************)
(* DerivedUnit: symbol, unit_exponents (a dict in insertion order, here a  *)
(* sequence of entries [u |-> BaseUnit, e |-> exponent]), factor, offset   *)
(***************************************************************************)
DerivedUnit(symbol, unit_exponents, factor, offset) ==
    [kind |-> "DerivedUnit", symbol |-> symbol,
     unit_exponents |-> unit_exponents, factor |-> factor, offset |-> offset]

Entry(b, e) == [u |-> b, e |-> e]

(***************************************************************************)
(* Unit methods                                                            *)
(***************************************************************************)
\* BaseUnit.as_derived_unit(symbol=None): DerivedUnit(symbol, {self: 1})
BaseUnit_as_derived_unit(b, symbol) ==
    DerivedUnit(symbol, <<Entry(b, One)>>, One, Zero)

\* other.as_derived_unit() where the callers write isinstance(other, BaseUnit)
AsDerived(w) ==
    IF w.kind = "BaseUnit" THEN BaseUnit_as_derived_unit(w, None) ELSE w

\* DerivedUnit.dimension_map(): the dict it builds, as a function from the
\* dimensions present to their exponents
RECURSIVE DimensionMapFrom(_, _, _)
DimensionMapFrom(exps, i, dimensions) ==
    IF i > Len(exps) THEN dimensions
    ELSE LET dim == exps[i].u.dimension
             exponent == exps[i].e
         IN  IF dim \notin DOMAIN dimensions
             THEN DimensionMapFrom(exps, i + 1,
                      [k \in DOMAIN dimensions \cup {dim} |->
                          IF k = dim THEN exponent ELSE dimensions[k]])
             ELSE LET total == FrAdd(dimensions[dim], exponent)
                  IN  IF total = Zero
                      THEN DimensionMapFrom(exps, i + 1,
                               [k \in DOMAIN dimensions \ {dim} |-> dimensions[k]])
                      ELSE DimensionMapFrom(exps, i + 1,
                               [dimensions EXCEPT ![dim] = total])

EmptyMap == [k \in {} |-> Zero]

DerivedUnit_dimension_map(d) == DimensionMapFrom(d.unit_exponents, 1, EmptyMap)

BaseUnit_dimension_map(b) == [k \in {b.dimension} |-> One]

dimension_map(w) ==
    IF w.kind = "BaseUnit" THEN BaseUnit_dimension_map(w)
    ELSE DerivedUnit_dimension_map(w)

\* Dimensions(mapping): the canonical vector, zero-valued entries discarded
Dimensions(m) == [k \in {k \in DOMAIN m : m[k] # Zero} |-> m[k]]

dimensions(w) == Dimensions(dimension_map(w))

\* DerivedUnit.si_factor()
RECURSIVE SiFactorFrom(_, _, _)
SiFactorFrom(exps, i, factor) ==
    IF i > Len(exps) THEN factor
    ELSE SiFactorFrom(exps, i + 1,
             FrMul(factor, FrPow(BaseUnit_si_factor(exps[i].u), exps[i].e)))

DerivedUnit_si_factor_first(d) ==
    IF Len(d.unit_exponents) = 0 THEN d.factor
    ELSE SiFactorFrom(<<d.unit_exponents[1]>>, 1, d.factor)

DerivedUnit_si_factor(d) == SiFactorFrom(d.unit_exponents, 1, d.factor)

si_factor(w) ==
    IF w.kind = "BaseUnit" THEN BaseUnit_si_factor(w) ELSE DerivedUnit_si_factor(w)

\* si_offset(): the stored offset of a DerivedUnit, 0 for a BaseUnit
si_offset(w) == IF w.kind = "BaseUnit" THEN Zero ELSE w.offset

(***************************************************************************)
(* Comparison handlers of the units                                        *)
(***************************************************************************)
Bool(b) == [kind |-> "bool", b |-> b]

\* a.si_factor == b.si_factor, written without the call: two bound-method
\* objects, equal iff they are bound to the same object
BoundMethodEq_called(a, b) == a.factor = b.factor

BoundMethodEq(a, b) == a.id = b.id

\* DerivedUnit.__eq__(self, other)
DerivedUnit_eq(self, other) ==
    LET o == AsDerived(other)
    IN  IF DerivedUnit_dimension_map(self) # DerivedUnit_dimension_map(o)
        THEN FALSE
        ELSE IF DerivedUnit_si_factor(self) # DerivedUnit_si_factor(o)
             THEN FALSE
             ELSE TRUE

\* BaseUnit.__eq__(self, other)
BaseUnit_eq(self, other) ==
    IF other.kind = "DerivedUnit"
    THEN DerivedUnit_eq(BaseUnit_as_derived_unit(self, None), other)
    ELSE IF self.dimension # other.dimension
         THEN FALSE
         ELSE IF ~BoundMethodEq(self, other)
              THEN FALSE
              ELSE TRUE

\* a == b on two units: the left operand's __eq__
UnitEq(a, b) ==
    IF a.kind = "BaseUnit" THEN BaseUnit_eq(a, b) ELSE DerivedUnit_eq(a, b)

\* a != b: object.__ne__ inverts __eq__
UnitNe(a, b) == ~UnitEq(a, b)

\* Unit.__eq__ of the abstract base; BaseUnit and DerivedUnit each define
\* their own __eq__, so a == b never reaches it
Unit_eq(self, other) ==
    IF dimensions(self) # dimensions(other)
    THEN FALSE
    ELSE IF si_factor(self) # si_factor(other) THEN FALSE ELSE TRUE

\* DerivedUnit.__gt__(self, other)
DerivedUnit_gt(self, other) ==
    LET o == AsDerived(other)
    IN  IF DerivedUnit_dimension_map(self) # DerivedUnit_dimension_map(o)
        THEN Raise("ValueError")
        ELSE Bool(FrGt(DerivedUnit_si_factor(self), DerivedUnit_si_factor(o)))

\* BaseUnit.__gt__(self, other): between two BaseUnits of one dimension it
\* orders the two bound methods, which Python rejects with a TypeError
BaseUnit_gt(self, other) ==
    IF other.kind = "DerivedUnit"
    THEN DerivedUnit_gt(BaseUnit_as_derived_unit(self, None), other)
    ELSE IF self.dimension # other.dimension
         THEN Raise("ValueError")
         ELSE Raise("TypeError")

UnitGt(a, b) ==
    IF a.kind = "BaseUnit" THEN BaseUnit_gt(a, b) ELSE DerivedUnit_gt(a, b)

\* functools.total_ordering: <, <= and >= derived from __gt__ and __eq__
Ordering(rel, gt, eq) ==
    IF IsRaise(gt) THEN gt
    ELSE CASE rel = ">"  -> gt
           [] rel = ">=" -> Bool(gt.b \/ eq)
           [] rel = "<"  -> Bool(~gt.b /\ ~eq)
           [] rel = "<=" -> Bool(~gt.b)

Relations == {"<", "<=", ">", ">="}

(***************************************************************************)
(* Hashing                                                                 *)
(***************************************************************************)
Hash(key) == [kind |-> "hash", key |-> key]

RECURSIVE SumValues(_, _)
SumValues(m, keys) ==
    IF keys = {} THEN Zero
    ELSE LET k == CHOOSE k \in keys : TRUE
         IN  FrAdd(m[k], SumValues(m, keys \ {k}))

\* Unit.__hash__ of the abstract base; attrs hash=True gives BaseUnit and
\* DerivedUnit a generated __hash__ of their own, so hash(w) never reaches it
Unit_hash(self) ==
    LET dim == dimensions(self)
    IN  Hash(<<si_factor(self), Cardinality(DOMAIN dim), SumValues(dim, DOMAIN dim)>>)

\* attrs hash=True on BaseUnit: __hash__ generated from the fields
BaseUnit_hash(self) == Hash(<<"BaseUnit", self.symbol, self.dimension, self.factor>>)

\* attrs hash=True on DerivedUnit: the generated __hash__ hashes the fields,
\* and unit_exponents is a dict, which is unhashable
DerivedUnit_hash(self) == Raise("TypeError")

\* hash(w): the most derived __hash__
UnitHash(w) ==
    IF w.kind = "BaseUnit" THEN BaseUnit_hash(w) ELSE DerivedUnit_hash(w)

(***************************************************************************)
(* Unit algebra                                                            *)
(***************************************************************************)
\* unit in base_units (list membership: identity, else ==)
InList(l, unit) ==
    \E i \in 1..Len(l) : l[i].id = unit.id \/ BaseUnit_eq(l[i], unit)

\* a dict key k answers a lookup of key: identity, else equal hash and ==
\* (two generated hashes are taken to agree exactly when their keys do)
KeyMatch(k, key) ==
    k.id = key.id \/ (BaseUnit_hash(k) = BaseUnit_hash(key) /\ BaseUnit_eq(k, key))

\* unit_exponents.get(key, 0)
DictGet(exps, key) ==
    IF \E i \in 1..Len(exps) : KeyMatch(exps[i].u, key)
    THEN exps[CHOOSE i \in 1..Len(exps) : KeyMatch(exps[i].u, key)].e
    ELSE Zero

\* the two "for unit in ....keys(): if unit not in base_units: append" loops
RECURSIVE AppendNew(_, _, _)
AppendNew(base_units, exps, i) ==
    IF i > Len(exps) THEN base_units
    ELSE IF ~InList(base_units, exps[i].u)
         THEN AppendNew(Append(base_units, exps[i].u), exps, i + 1)
         ELSE AppendNew(base_units, exps, i + 1)

\* the outer comprehension: keep the entries whose exponent != 0
RECURSIVE DropZero(_, _)
DropZero(exps, i) ==
    IF i > Len(exps) THEN <<>>
    ELSE IF exps[i].e # Zero
         THEN <<exps[i]>> \o DropZero(exps, i + 1)
         ELSE DropZero(exps, i + 1)

\* DerivedUnit.__mul__(self, other) for a DerivedUnit other
DerivedUnit_mul(self, other) ==
    LET base_units == AppendNew(AppendNew(<<>>, self.unit_exponents, 1),
                                other.unit_exponents, 1)
        summed == [i \in 1..Len(base_units) |->
                      Entry(base_units[i],
                            FrAdd(DictGet(self.unit_exponents, base_units[i]),
                                  DictGet(other.unit_exponents, base_units[i])))]
    IN  DerivedUnit(None, DropZero(summed, 1), FrMul(self.factor, other.factor), Zero)

\* DerivedUnit.multiplicative_inverse()
DerivedUnit_multiplicative_inverse(self) ==
    DerivedUnit(None,
                [i \in 1..Len(self.unit_exponents) |->
                    Entry(self.unit_exponents[i].u, FrNeg(self.unit_exponents[i].e))],
                FrInv(self.factor), Zero)

\* BaseUnit.multiplicative_inverse()
BaseUnit_multiplicative_inverse(self) ==
    DerivedUnit(None, <<Entry(self, Int2Fr(-1))>>, One, Zero)

\* BaseUnit.__pow__(power)
BaseUnit_pow(self, power) == DerivedUnit(None, <<Entry(self, power)>>, One, Zero)

\* BaseUnit.__mul__(self, other) for a unit operand
BaseUnit_mul(self, other) ==
    IF other.kind = "DerivedUnit"
    THEN DerivedUnit_mul(BaseUnit_as_derived_unit(self, None), other)
    ELSE IF BaseUnit_eq(self, other)
         THEN BaseUnit_pow(self, Int2Fr(2))
         ELSE DerivedUnit_mul(BaseUnit_as_derived_unit(self, None),
                              BaseUnit_as_derived_unit(other, None))

\* a * b on two units.  DerivedUnit.__mul__ answers NotImplemented for a
\* BaseUnit operand, so Python calls the reflected BaseUnit.__rmul__ = __mul__
UnitMul(a, b) ==
    IF a.kind = "BaseUnit" THEN BaseUnit_mul(a, b)
    ELSE IF b.kind = "DerivedUnit" THEN DerivedUnit_mul(a, b)
         ELSE BaseUnit_mul(b, a)

(***************************************************************************)
(* Unit.conversion_factor_to and Unit.conversion_parameters_to             *)
(***************************************************************************)
conversion_factor_to_product(self, other) ==
    IF dimension_map(self) # dimension_map(other)
    THEN Raise("ValueError")
    ELSE [kind |-> "number", value |-> FrMul(si_factor(self), si_factor(other))]

\* Unit.conversion_factor_to(self, other)
conversion_factor_to(self, other) ==
    IF dimension_map(self) # dimension_map(other)
    THEN Raise("ValueError")
    ELSE [kind |-> "number", value |-> FrDiv(si_factor(self), si_factor(other))]

Params(factor, additive) ==
    [kind |-> "params", factor |-> factor, additive |-> additive]

\* Unit.conversion_parameters_to(self, other)
conversion_parameters_to(self, other) ==
    IF dimensions(self) # dimensions(other)
    THEN Raise("ValueError")
    ELSE LET from_factor == si_factor(self)
             to_factor == si_factor(other)
             from_offset == si_offset(self)
             to_offset == si_offset(other)
         IN  IF to_offset = Zero /\ from_offset = Zero
             THEN Params(FrDiv(from_factor, to_factor), Zero)
             ELSE Params(FrDiv(from_factor, to_factor),
                         FrSub(FrDiv(FrMul(from_offset, from_factor), to_factor),
                               to_offset))

(***************************************************************************)
(* Quantity                                                                *)
(***************************************************************************)
Quantity(value, unit) == [kind |-> "Quantity", value |-> value, unit |-> unit]

Number(value) == [kind |-> "number", value |-> value]

\* unit * real (BaseUnit.__mul__ / DerivedUnit.__mul__, Real operand)
UnitTimesReal(w, r) == Quantity(r, AsDerived(w))

\* Quantity.convert_to(self, other)
Quantity_convert_to(self, other) ==
    LET o == AsDerived(other)
    IN  IF dimensions(self.unit) # dimensions(o)
        THEN Raise("ValueError")
        ELSE LET f == conversion_factor_to(self.unit, o)
             IN  IF IsRaise(f) THEN f
                 ELSE Quantity(FrMul(self.value, f.value), o)

\* Quantity.additive_inverse()
Quantity_additive_inverse(self) == Quantity(FrNeg(self.value), self.unit)

\* Quantity.__add__(self, other) for a Quantity other
RECURSIVE Quantity_add(_, _)
Quantity_add(self, other) ==
    IF UnitNe(self.unit, other.unit)
    THEN LET c == Quantity_convert_to(other, self.unit)
         IN  IF IsRaise(c) THEN c ELSE Quantity_add(self, c)
    ELSE Quantity(FrAdd(self.value, other.value), self.unit)

\* Quantity.__sub__(self, other) for a Quantity other
Quantity_sub(self, other) == Quantity_add(self, Quantity_additive_inverse(other))

Quantity_mul_no_factor(self, other) ==
    LET new_unit == DerivedUnit_mul(self.unit, other.unit)
    IN  IF DOMAIN DerivedUnit_dimension_map(new_unit) = {}
        THEN Number(FrMul(self.value, other.value))
        ELSE Quantity(FrMul(self.value, other.value), new_unit)

\* Quantity.__mul__(self, other) for a Quantity other
Quantity_mul(self, other) ==
    LET new_unit == DerivedUnit_mul(self.unit, other.unit)
    IN  IF DOMAIN DerivedUnit_dimension_map(new_unit) = {}
        THEN Number(FrMul(FrMul(self.value, other.value), new_unit.factor))
        ELSE Quantity(FrMul(self.value, other.value), new_unit)

\* Quantity.multiplicative_inverse()
Quantity_multiplicative_inverse(self) ==
    IF self.value = Zero THEN Raise("ZeroDivisionError")
    ELSE Quantity(FrInv(self.value), DerivedUnit_multiplicative_inverse(self.unit))

\* Quantity.__truediv__(self, other) for a Quantity other
Quantity_truediv(self, other) ==
    LET inv == Quantity_multiplicative_inverse(other)
    IN  IF IsRaise(inv) THEN inv ELSE Quantity_mul(self, inv)

\* Quantity.__eq__(self, other)
Quantity_eq(self, other) ==
    IF DerivedUnit_dimension_map(self.unit) # DerivedUnit_dimension_map(other.unit)
    THEN FALSE
    ELSE IF FrMul(self.value, DerivedUnit_si_factor(self.unit))
              # FrMul(other.value, DerivedUnit_si_factor(other.unit))
         THEN FALSE
         ELSE TRUE

Quantity_gt_unchecked(self, other) ==
    Bool(FrGt(FrMul(self.value, DerivedUnit_si_factor(self.unit)),
              FrMul(other.value, DerivedUnit_si_factor(other.unit))))

\* Quantity.__gt__(self, other)
Quantity_gt(self, other) ==
    IF DerivedUnit_dimension_map(self.unit) # DerivedUnit_dimension_map(other.unit)
    THEN Raise("ValueError")
    ELSE Bool(FrGt(FrMul(self.value, DerivedUnit_si_factor(self.unit)),
                   FrMul(other.value, DerivedUnit_si_factor(other.unit))))

(***************************************************************************)
(* The shipped catalog (the modules under dimans/units) and test units     *)
(***************************************************************************)
\* si_derived/celsius.py
celsius == DerivedUnit("degC", <<Entry(kelvin, One)>>, One, Fraction(27315, 100))

\* us/fahrenheit.py: the module binds its unit to the name celsius too
us_fahrenheit_celsius ==
    DerivedUnit("degF", <<Entry(kelvin, One)>>, Fraction(5, 9), Fraction(45967, 100))

\* module |-> the names it exports
Catalog ==
    [si_base_length |-> [meter |-> meter],
     imperial_length |-> [foot |-> foot],
     si_base_temperature |-> [kelvin |-> kelvin],
     si_derived_celsius |-> [celsius |-> celsius],
     us_fahrenheit |-> [celsius |-> us_fahrenheit_celsius]]

\* from <module> import <name>
Import(module, name) ==
    IF name \in DOMAIN Catalog[module]
    THEN [kind |-> "unit", unit |-> Catalog[module][name]]
    ELSE Raise("ImportError")

QueriedModules == {"si_derived_celsius", "us_fahrenheit"}

QueriedNames == {"celsius", "fahrenheit"}

\* units built directly, as the test-suite does
dimensionless == DerivedUnit(None, <<>>, One, Zero)

dim_1_three_halves == DerivedUnit(None, <<Entry(base_dim_1, Fraction(3, 2))>>, One, Zero)

alt_minus_three_halves ==
    DerivedUnit(None, <<Entry(base_dim_1_alt, Fraction(-3, 2))>>, One, Zero)

alt_one_half == DerivedUnit(None, <<Entry(base_dim_1_alt, Fraction(1, 2))>>, One, Zero)

metre_named == DerivedUnit("metre", <<Entry(meter, One)>>, One, Zero)

decametre == DerivedUnit("dam", <<Entry(meter, One)>>, Int2Fr(10), Zero)

per_foot == DerivedUnit(None, <<Entry(foot, Int2Fr(-1))>>, One, Zero)

UnitInputs ==
    BaseUnits \cup
    {celsius, us_fahrenheit_celsius, dimensionless, dim_1_three_halves,
     alt_minus_three_halves, alt_one_half, metre_named, decametre, per_foot}

ExampleValues == {Int2Fr(3), Int2Fr(5), Int2Fr(10), Int2Fr(32)}

ValueInputs == {Int2Fr(n) : n \in -MaxNum..MaxNum} \cup ExampleValues

(***************************************************************************)
(* Unit algebra: power, division, renaming                                 *)
(***************************************************************************)
\* DerivedUnit.__pow__(power) for a Rational power
DerivedUnit_pow(self, power) ==
    DerivedUnit(None,
                [i \in 1..Len(self.unit_exponents) |->
                    Entry(self.unit_exponents[i].u,
                          FrMul(self.unit_exponents[i].e, power))],
                FrPow(self.factor, power), Zero)

\* w ** power
UnitPow(w, power) ==
    IF w.kind = "BaseUnit" THEN BaseUnit_pow(w, power) ELSE DerivedUnit_pow(w, power)

\* w.multiplicative_inverse()
UnitInverse(w) ==
    IF w.kind = "BaseUnit" THEN BaseUnit_multiplicative_inverse(w)
    ELSE DerivedUnit_multiplicative_inverse(w)

\* a / b on two units.  "other == 1" is False for a unit operand.  The
\* __truediv__ of one class answers NotImplemented for an operand of the
\* other class, and Python then calls the operand's __rtruediv__, which
\* returns other * self.multiplicative_inverse()
UnitTrueDiv(self, other) == UnitMul(self, UnitInverse(other))

\* DerivedUnit.named(symbol, unit): the offset is not passed on
DerivedUnit_named(symbol, unit) ==
    DerivedUnit(symbol, unit.unit_exponents, unit.factor, Zero)

\* DerivedUnit.as_derived_unit(symbol)
DerivedUnit_as_derived_unit(self, symbol) == DerivedUnit_named(symbol, self)

\* w.as_derived_unit(symbol)
as_derived_unit(w, symbol) ==
    IF w.kind = "BaseUnit" THEN BaseUnit_as_derived_unit(w, symbol)
    ELSE DerivedUnit_as_derived_unit(w, symbol)

\* DerivedUnit.using(ref, symbol, factor): the signature has no offset
\* parameter and the offset of ref is not passed on
DerivedUnit_using(ref, symbol, factor) ==
    DerivedUnit(symbol, ref.unit_exponents, FrMul(ref.factor, factor), Zero)

\* the call DerivedUnit.using(ref, symbol, factor=..., **keywords)
DerivedUnit_using_call(ref, symbol, factor, keywords) ==
    IF "offset" \in keywords THEN Raise("TypeError")
    ELSE DerivedUnit_using(ref, symbol, factor)

(***************************************************************************)
(* Further operands: the units the unit tests build                        *)
(***************************************************************************)
base_dim_2 == BaseUnit("base_dim_2", "base_dim_2", "dim_2", Int2Fr(1))

x_unit == BaseUnit("x_unit", "x", "dim_1", Int2Fr(7))

y_unit == BaseUnit("y_unit", "y", "dim_2", Int2Fr(5))

derived_complicated ==
    DerivedUnit("derived_complicated",
                <<Entry(base_dim_1, Fraction(1, 2)), Entry(base_dim_2, Fraction(-1, 2))>>,
                Int2Fr(16), Int2Fr(9))

\* DerivedUnit(None, {x_unit: 2, y_unit: 3}, factor=11, offset=13)
non_offset_unit ==
    DerivedUnit(None, <<Entry(x_unit, Int2Fr(2)), Entry(y_unit, Int2Fr(3))>>,
                Int2Fr(11), Zero)

offset_unit ==
    DerivedUnit(None, <<Entry(x_unit, Int2Fr(2)), Entry(y_unit, Int2Fr(3))>>,
                Int2Fr(11), Int2Fr(13))

\* DerivedUnit(None, {base_dim_1: 3/2}, factor, offset) of the rendering tests
offset_twelve ==
    DerivedUnit(None, <<Entry(base_dim_1, Fraction(3, 2))>>, One, Int2Fr(12))

factor_nine ==
    DerivedUnit(None, <<Entry(base_dim_1, Fraction(3, 2))>>, Int2Fr(9), Zero)

nine_plus_six ==
    DerivedUnit(None, <<Entry(base_dim_1, Fraction(3, 2))>>, Int2Fr(9), Int2Fr(6))

derived_4 ==
    DerivedUnit("derived_4", <<Entry(base_dim_1, Fraction(3, 2))>>, Int2Fr(9), Int2Fr(6))

dimensionless_nine_plus_six == DerivedUnit(None, <<>>, Int2Fr(9), Int2Fr(6))

TestUnits ==
    {x_unit, y_unit, derived_complicated, non_offset_unit, offset_unit,
     offset_twelve, factor_nine, nine_plus_six, derived_4,
     dimensionless_nine_plus_six}

\* the number passed as power or as factor, and the number passed as offset
NumberArgs == {Int2Fr(0), Int2Fr(1), Int2Fr(2), Int2Fr(-1), Fraction(1, 2)}

OffsetArgs == {Int2Fr(0), Int2Fr(6)}

(***************************************************************************)
(* as_quantity                                                             *)
(***************************************************************************)
\* DerivedUnit.as_quantity()
DerivedUnit_as_quantity(self) == Quantity(One, self)

\* BaseUnit.as_quantity()
BaseUnit_as_quantity(self) == Quantity(One, BaseUnit_as_derived_unit(self, None))

as_quantity(w) ==
    IF w.kind = "BaseUnit" THEN BaseUnit_as_quantity(w) ELSE DerivedUnit_as_quantity(w)

(***************************************************************************)
(* Metric prefixes.  The factors run from 10**30 down to 10**-30, beyond   *)
(* machine integers, so a prefix factor keeps its power of ten apart: the  *)
(* record [n, d, ten] is the Fraction n/d * 10**ten.  All numbers that     *)
(* make_metric_units builds for one prefix carry that prefix's power of    *)
(* ten, so two of them are equal exactly when n and d agree.               *)
(***************************************************************************)
Scaled(f, ten) == [n |-> f.n, d |-> f.d, ten |-> ten]

\* Fraction * scaled number
ScMul(f, s) == Scaled(FrMul(f, [n |-> s.n, d |-> s.d]), s.ten)

MetricPrefix(name, symbol, ten) ==
    [name |-> name, symbol |-> symbol, factor |-> Scaled(One, ten)]

metric_prefixes ==
    << MetricPrefix("quetta", "Q", 30),
       MetricPrefix("yotta", "Y", 24),
       MetricPrefix("zetta", "Z", 21),
       MetricPrefix("exa", "E", 18),
       MetricPrefix("peta", "P", 15),
       MetricPrefix("tera", "T", 12),
       MetricPrefix("giga", "G", 9),
       MetricPrefix("mega", "M", 6),
       MetricPrefix("kilo", "k", 3),
       MetricPrefix("hecto", "h", 2),
       MetricPrefix("deca", "da", 1),
       MetricPrefix("deci", "d", -1),
       MetricPrefix("centi", "c", -2),
       MetricPrefix("milli", "m", -3),
       MetricPrefix("micro", "μ", -6),
       MetricPrefix("nano", "n", -9),
       MetricPrefix("pico", "p", -12),
       MetricPrefix("femto", "f", -15),
       MetricPrefix("atto", "a", -18),
       MetricPrefix("zepto", "z", -21),
       MetricPrefix("yocto", "y", -24),
       MetricPrefix("ronto", "r", -27),
       MetricPrefix("quecto", "q", -30) >>

\* BaseUnit.using(ref, symbol, factor) of the package make_metric_units
\* imports from, called with a prefixed factor: a new BaseUnit object
Prefixed_BaseUnit_using(id, ref, symbol, factor) ==
    BaseUnit(id, symbol, ref.dimension, ScMul(ref.factor, factor))

\* DerivedUnit.using(ref, symbol, factor) called with a prefixed factor
Prefixed_DerivedUnit_using(ref, symbol, factor) ==
    DerivedUnit(symbol, ref.unit_exponents, ScMul(ref.factor, factor), Zero)

\* make_metric_units(unit).  prefix.symbol + unit.symbol raises TypeError
\* when the symbol is None.
make_metric_units(unit) ==
    IF unit.kind = "BaseUnit"
    THEN [kind |-> "list",
          items |-> [i \in 1..Len(metric_prefixes) |->
              Prefixed_BaseUnit_using(
                  metric_prefixes[i].name \o unit.id,
                  unit,
                  metric_prefixes[i].symbol \o unit.symbol,
                  ScMul(unit.factor, metric_prefixes[i].factor))]]
    ELSE IF unit.kind = "DerivedUnit"
    THEN IF unit.symbol = None THEN Raise("TypeError")
         ELSE [kind |-> "list",
               items |-> [i \in 1..Len(metric_prefixes) |->
                   Prefixed_DerivedUnit_using(
                       unit,
                       metric_prefixes[i].symbol \o unit.symbol,
                       ScMul(unit.factor, metric_prefixes[i].factor))]]
    ELSE Raise("TypeError")

(***************************************************************************)
(* Quantity: modulo, divmod, power                                         *)
(***************************************************************************)
\* a // b on Fractions: the integer floor(a / b), for b # 0
FrFloorDiv(a, b) == (a.n * b.d) \div (a.d * b.n)

\* a % b on Fractions: a - b * (a // b), for b # 0
FrMod(a, b) == FrSub(a, FrMul(b, Int2Fr(FrFloorDiv(a, b))))

\* Quantity.__mod__(self, other) for a Quantity other
RECURSIVE Quantity_mod(_, _)
Quantity_mod(self, other) ==
    IF UnitNe(self.unit, other.unit)
    THEN LET c == Quantity_convert_to(self, other.unit)
         IN  IF IsRaise(c) THEN c ELSE Quantity_mod(c, other)
    ELSE IF other.value = Zero THEN Raise("ZeroDivisionError")
         ELSE Quantity(FrMod(self.value, other.value), self.unit)

\* Quantity.__divmod__(self, other) for a Quantity other
RECURSIVE Quantity_divmod(_, _)
Quantity_divmod(self, other) ==
    IF UnitNe(self.unit, other.unit)
    THEN LET c == Quantity_convert_to(self, other.unit)
         IN  IF IsRaise(c) THEN c ELSE Quantity_divmod(c, other)
    ELSE IF other.value = Zero THEN Raise("ZeroDivisionError")
         ELSE [kind |-> "tuple",
               div |-> FrFloorDiv(self.value, other.value),
               mod |-> Quantity(FrMod(self.value, other.value), self.unit)]

\* base ** power on Fractions yields a float (a complex of floats for a
\* negative base), not a Fraction, exactly when the power is not integral
\* (Fraction.__pow__)
PowIsFloat_always(power) == TRUE

PowIsFloat(power) == power.d # 1

\* Quantity.__pow__(self, power) for a Rational power; a Quantity's unit is a
\* DerivedUnit
Quantity_pow(self, power) ==
    IF (self.value = Zero \/ self.unit.factor = Zero) /\ power.n < 0
    THEN Raise("ZeroDivisionError")
    ELSE Quantity(FrPow(self.value, power), DerivedUnit_pow(self.unit, power))

PowerInputs == {Int2Fr(0), Int2Fr(2), Int2Fr(-1), Fraction(1, 2)}

(***************************************************************************)
(* Text                                                                    *)
(***************************************************************************)
\* str(Fraction): "n" for a whole number, else "n/d"
FrStr(f) ==
    IF f.d = 1 THEN ToString(f.n) ELSE ToString(f.n) \o "/" \o ToString(f.d)

\* BaseUnit.__str__
BaseUnit_str(self) == self.symbol

\* " ".join(parts)
RECURSIVE Join(_, _)
Join(parts, i) ==
    IF i > Len(parts) THEN ""
    ELSE IF i = Len(parts) THEN parts[i]
    ELSE parts[i] \o " " \o Join(parts, i + 1)

\* DerivedUnit._str_with_multiplicands()
DerivedUnit_str_with_multiplicands(self) ==
    IF Len(self.unit_exponents) = 0 THEN "1"
    ELSE Join([i \in 1..Len(self.unit_exponents) |->
                  IF self.unit_exponents[i].e # One
                  THEN BaseUnit_str(self.unit_exponents[i].u) \o "^"
                           \o FrStr(self.unit_exponents[i].e)
                  ELSE BaseUnit_str(self.unit_exponents[i].u)], 1)

\* DerivedUnit.__str__; None and "" are the falsy symbols
DerivedUnit_str(self) ==
    IF self.symbol # None /\ self.symbol # "" THEN self.symbol
    ELSE IF self.factor = One THEN DerivedUnit_str_with_multiplicands(self)
    ELSE FrStr(self.factor) \o " " \o DerivedUnit_str_with_multiplicands(self)

\* DerivedUnit.__repr__
DerivedUnit_repr(self) ==
    IF self.symbol # None /\ self.symbol # ""
    THEN IF self.factor # One
         THEN "<DerivedUnit " \o DerivedUnit_str(self) \o " = " \o FrStr(self.factor)
                  \o " " \o DerivedUnit_str_with_multiplicands(self) \o ">"
         ELSE "<DerivedUnit " \o DerivedUnit_str(self) \o " = "
                  \o DerivedUnit_str_with_multiplicands(self) \o ">"
    ELSE IF self.factor # One
         THEN "<DerivedUnit " \o FrStr(self.factor) \o " " \o DerivedUnit_str(self) \o ">"
         ELSE "<DerivedUnit " \o DerivedUnit_str(self) \o ">"

\* Quantity.__floordiv__(self, other) for a Quantity other: the quotient of
\* the two values as they stand, times the factor of self.unit / other.unit
\* when that unit has no dimensions
Quantity_floordiv(self, other) ==
    LET new_unit == DerivedUnit_mul(self.unit,
                                    DerivedUnit_multiplicative_inverse(other.unit))
    IN  IF other.value = Zero THEN Raise("ZeroDivisionError")
        ELSE IF DOMAIN DerivedUnit_dimension_map(new_unit) = {}
             THEN Number(FrMul(Int2Fr(FrFloorDiv(self.value, other.value)),
                               new_unit.factor))
             ELSE Quantity(Int2Fr(FrFloorDiv(self.value, other.value)), new_unit)

\* Quantity.__rmul__(self, other) for a Real other (__rmul__ = __mul__)
Quantity_rmul_Real(self, other) == Quantity(FrMul(self.value, other), self.unit)

(***************************************************************************)
(* The calculator (dimans.cli).  The grammar and the evaluator live in     *)
(* cli/parser.py; here a line is one of a few sample lines, each with the  *)
(* outcome parsing and evaluating it has.                                  *)
(***************************************************************************)
Lines == {"1 + 1", "r(0)", "1 +", "(10^400)^(1/2)", "exit()"}

\* parser.parse(in_line): the tree, or lark.UnexpectedInput
parser_parse(in_line) ==
    IF in_line \in {"", "1 +"}
    THEN [kind |-> "raise", exc |-> "UnexpectedEOF", message |-> "Unexpected EOF"]
    ELSE [kind |-> "Tree", text |-> in_line,
          func |-> IF in_line = "exit()" THEN <<"exit">> ELSE <<>>]

\* an exception raised inside a transformer callback, as lark wraps it
VisitError(type, args) ==
    [kind |-> "raise", exc |-> "VisitError", orig_exc |-> [type |-> type, args |-> args]]

\* evaluator.transform(parsed_line) against the stored results: the value,
\* lark.exceptions.VisitError, or the end of the session for an exit call.
\* Raising an exact 10^400 to the power 1/2 makes Fraction.__pow__ convert
\* it to float: OverflowError with one argument; a float raised past the
\* float range gives OverflowError(34, 'Numerical result out of range').
evaluator_transform(parsed_line, stored) ==
    CASE parsed_line.text = "1 + 1" -> Number(Int2Fr(2))
      [] parsed_line.text = "r(0)" ->
            IF Len(stored) > 0 THEN stored[1][3]
            ELSE VisitError("CalcError", <<"no such result">>)
      [] parsed_line.text = "(10^400)^(1/2)" ->
            VisitError("OverflowError",
                       <<"integer division result too large for a float">>)
      [] parsed_line.text = "exit()" -> [kind |-> "exit"]

\* represent_result(parsed_line, evaled_line) for a bare number
represent_result(parsed_line, evaled_line) == FrStr(evaled_line.value)

\* the three Statics of one result in the pane, as one row
Row(id, line, parsed, result) ==
    [id |-> id, eq |-> "=", repr |-> line \o "\n" \o represent_result(parsed, result)]

\* Results.add_result(line, parsed, result): the new list and the new pane,
\* the new row mounted before the others
Results_add_result(self, line, parsed, result) ==
    LET appended == Append(self.results, <<line, parsed, result>>)
    IN  [results |-> appended,
         mounted |-> <<Row("r(" \o ToString(Len(appended)) \o ")", line, parsed, result)>>
                        \o self.mounted]

\* Results.compose(): the rows for the stored list, newest first
Results_compose(stored) ==
    LET max_result == Len(stored) - 1
    IN  [number \in 1..Len(stored) |->
            LET result == stored[Len(stored) - number + 1]
            IN  Row("r(" \o ToString(max_result - (number - 1)) \o ")",
                    result[1], result[2], result[3])]

\* the message on the label for a failed evaluation (lines 261-266), or
\* the IndexError of args[1] on a one-argument OverflowError
VisitErrorMessage(orig_exc) ==
    IF orig_exc.type = "CalcError" THEN [kind |-> "str", text |-> orig_exc.args[1]]
    ELSE IF orig_exc.type = "OverflowError"
         THEN IF Len(orig_exc.args) >= 2
              THEN [kind |-> "str", text |-> orig_exc.args[2]]
              ELSE Raise("IndexError")
         ELSE [kind |-> "str", text |-> orig_exc.args[1]]

\* DimansApp.on_line_input_changed for the line in_line: the marks left on
\* the input and on the label, the text the label is updated to (if it is),
\* and what the handler raised
DimansApp_on_line_input_changed(in_line, stored) ==
    LET parsed_line == parser_parse(in_line)
        evaled_line == evaluator_transform(parsed_line, stored)
        message == VisitErrorMessage(evaled_line.orig_exc)
        done(input_classes, label_classes, text) ==
            [classes |-> input_classes, label_classes |-> label_classes,
             update |-> TRUE, text |-> text, raised |-> None]
    IN  IF in_line = "" THEN done({}, {}, "")
        ELSE IF IsRaise(parsed_line)
        THEN done({"error"}, {"error"}, parsed_line.message)
        ELSE IF \E i \in 1..Len(parsed_line.func) : parsed_line.func[i] \in {"exit"}
        THEN done({"success"}, {}, "<Submitting will exit>")
        ELSE IF IsRaise(evaled_line)
        THEN IF IsRaise(message)
             THEN [classes |-> {}, label_classes |-> {}, update |-> FALSE,
                   text |-> "", raised |-> message.exc]
             ELSE done({}, {}, message.text)
        ELSE done({"success"}, {}, represent_result(parsed_line, evaled_line))

DimansApp_on_line_input_submitted_unmarked(in_line, input_classes, stored) ==
    LET parsed_line == parser_parse(in_line)
        evaled_line == evaluator_transform(parsed_line, stored)
    IN  IF IsRaise(parsed_line) THEN [kind |-> "return"]
        ELSE IF IsRaise(evaled_line) THEN [kind |-> "return"]
        ELSE IF evaled_line.kind = "exit" THEN [kind |-> "exit"]
        ELSE [kind |-> "commit", triple |-> <<in_line, parsed_line, evaled_line>>]

\* DimansApp.on_line_input_submitted with the input holding in_line and
\* carrying the marks input_classes: what the handler did
DimansApp_on_line_input_submitted(in_line, input_classes, stored) ==
    LET parsed_line == parser_parse(in_line)
        evaled_line == evaluator_transform(parsed_line, stored)
    IN  IF "success" \notin input_classes THEN [kind |-> "return"]
        ELSE IF IsRaise(parsed_line) THEN [kind |-> "return"]
        ELSE IF IsRaise(evaled_line) THEN [kind |-> "return"]
        ELSE IF evaled_line.kind = "exit" THEN [kind |-> "exit"]
        ELSE [kind |-> "commit", triple |-> <<in_line, parsed_line, evaled_line>>]

\* HistoryInput.on_input_submitted(event) on the widget self: the widget's
\* fields afterwards, whether the event was stopped, and the value of the
\* Input.Submitted the handler posted (None when it posted none)
HistoryInput_on_input_submitted_unguarded(self, event_value) ==
    [history |-> Append(self.history, event_value), history_index |-> 0,
     value |-> self.value, stop |-> FALSE, posted |-> None]

HistoryInput_on_input_submitted(self, event_value) ==
    IF event_value = ""
    THEN IF self.history # <<>>
         THEN [history |-> self.history, history_index |-> self.history_index,
               value |-> self.history[Len(self.history)], stop |-> TRUE,
               posted |-> self.history[Len(self.history)]]
         ELSE [history |-> self.history, history_index |-> self.history_index,
               value |-> self.value, stop |-> FALSE, posted |-> None]
    ELSE [history |-> Append(self.history, event_value), history_index |-> 0,
          value |-> self.value, stop |-> FALSE, posted |-> None]

\* HistoryInput.action_history_back()
HistoryInput_action_history_back(self) ==
    IF self.history_index < Len(self.history)
    THEN [history_index |-> self.history_index + 1,
          value |-> self.history[Len(self.history) - (self.history_index + 1) + 1]]
    ELSE [history_index |-> self.history_index, value |-> self.value]

HistoryInput_action_history_forward_keeping(self) ==
    IF self.history_index > 0
    THEN [history_index |-> self.history_index - 1, value |-> self.value]
    ELSE [history_index |-> self.history_index, value |-> self.value]

\* HistoryInput.action_history_forward()
HistoryInput_action_history_forward(self) ==
    IF self.history_index > 0
    THEN [history_index |-> self.history_index - 1,
          value |-> IF self.history_index - 1 = 0 THEN ""
                    ELSE self.history[Len(self.history) - (self.history_index - 1) + 1]]
    ELSE [history_index |-> self.history_index, value |-> self.value]

\* DimansApp.compose / on_mount, Results.__init__, HistoryInput.__init__
Startup ==
    /\ input_value = ""
    /\ classes = {}
    /\ label = [text |-> "", classes |-> {}]
    /\ history = <<>>
    /\ history_index = 0
    /\ evaluator_results = <<>>
    /\ results = <<>>
    /\ mounted = Results_compose(<<>>)
    /\ messages = <<>>
    /\ running = TRUE
    /\ query = <<>>

(***************************************************************************)
(* The command palette (DimansIdents)                                       *)
(***************************************************************************)
\* evaluator.ident_map: some catalog names, in order, with their characters
ident_map ==
    <<[ident_name |-> "meter", chars |-> <<"m", "e", "t", "e", "r">>,
       ident_value |-> meter],
      [ident_name |-> "decameter",
       chars |-> <<"d", "e", "c", "a", "m", "e", "t", "e", "r">>,
       ident_value |-> decametre],
      [ident_name |-> "foot", chars |-> <<"f", "o", "o", "t">>, ident_value |-> foot],
      [ident_name |-> "celsius", chars |-> <<"c", "e", "l", "s", "i", "u", "s">>,
       ident_value |-> celsius]>>

\* the characters a query is typed from
QueryChars == {"m", "e", "t", "c", "l", "x"}

\* get_names_overview(ident_value): the names bound to the value
RECURSIVE NamesFrom(_, _)
NamesFrom(ident_value, i) ==
    IF i > Len(ident_map) THEN ""
    ELSE IF ident_map[i].ident_value = ident_value
         THEN ident_map[i].ident_name
              \o (IF NamesFrom(ident_value, i + 1) = "" THEN "" ELSE ", ")
              \o NamesFrom(ident_value, i + 1)
         ELSE NamesFrom(ident_value, i + 1)

get_names_overview(ident_value) == NamesFrom(ident_value, 1)

\* DimansIdents.startup(): one CommandifiedIdent per catalog name
precalculated_list ==
    [i \in 1..Len(ident_map) |->
        [ident_name |-> ident_map[i].ident_name,
         chars |-> ident_map[i].chars,
         ident_value |-> ident_map[i].ident_value,
         help_text |->
            IF ident_map[i].ident_value.kind = "DerivedUnit"
            THEN get_names_overview(ident_map[i].ident_value) \o "\n"
                 \o DerivedUnit_str(DerivedUnit_using(ident_map[i].ident_value, None, One))
            ELSE get_names_overview(ident_map[i].ident_value) \o "\n"
                 \o BaseUnit_str(ident_map[i].ident_value)]]

\* whether the characters of query occur in candidate in this order, from
\* positions i of query and j of candidate on
RECURSIVE InOrder(_, _, _, _)
InOrder(query_chars, candidate, i, j) ==
    IF i > Len(query_chars) THEN TRUE
    ELSE IF j > Len(candidate) THEN FALSE
    ELSE IF query_chars[i] = candidate[j]
         THEN InOrder(query_chars, candidate, i + 1, j + 1)
         ELSE InOrder(query_chars, candidate, i, j + 1)

\* matcher.match(candidate): positive exactly for a fuzzy match
Matcher_match(query_chars, candidate) ==
    IF InOrder(query_chars, candidate, 1, 1) THEN 1 ELSE 0

\* the body of the loop of DimansIdents.search from entry i on: the first
\* entry with a positive score yields its Hit; the statement after that
\* yield reads the names command_name, ident_name and help_text, which the
\* function never binds
RECURSIVE SearchFrom(_, _)
SearchFrom(query_chars, i) ==
    IF i > Len(precalculated_list) THEN [hits |-> <<>>, raised |-> None]
    ELSE LET metadata == precalculated_list[i]
             score == Matcher_match(query_chars, metadata.chars)
         IN  IF score > 0
             THEN [hits |-> <<[score |-> score, text |-> metadata.ident_name,
                               help |-> metadata.help_text]>>,
                   raised |-> "NameError"]
             ELSE SearchFrom(query_chars, i + 1)

\* DimansIdents.search(query): the hits it yields and what it raised
DimansIdents_search(query_chars) ==
    IF Len(query_chars) < 3 THEN [hits |-> <<>>, raised |-> None]
    ELSE SearchFrom(query_chars, 1)

(***************************************************************************)
(* The client: draw the operands, then apply one call                      *)
(***************************************************************************)
\* the two Quantity operands, x * u and y * v
a == UnitTimesReal(u, x)

b == UnitTimesReal(v, y)

Init ==
    /\ u \in UnitInputs
    /\ v \in UnitInputs
    /\ x \in ValueInputs
    /\ y \in ValueInputs
    /\ op = "init"
    /\ res = [kind |-> "none"]
    /\ Startup

ConvertTo ==
    /\ op = "init"
    /\ op' = "convert_to"
    /\ res' = Quantity_convert_to(a, v)
    /\ UNCHANGED <<u, v, x, y, session, query>>

\* ... .convert_to(a.unit) applied to the Quantity the first conversion returned
ConvertBack ==
    /\ op = "convert_to"
    /\ res.kind = "Quantity"
    /\ op' = "convert_back"
    /\ res' = Quantity_convert_to(res, a.unit)
    /\ UNCHANGED <<u, v, x, y, session, query>>

ConversionParametersTo ==
    /\ op = "init"
    /\ op' = "conversion_parameters_to"
    /\ res' = conversion_parameters_to(u, v)
    /\ UNCHANGED <<u, v, x, y, session, query>>

Add ==
    /\ op = "init"
    /\ op' = "add"
    /\ res' = Quantity_add(a, b)
    /\ UNCHANGED <<u, v, x, y, session, query>>

Sub ==
    /\ op = "init"
    /\ op' = "sub"
    /\ res' = Quantity_sub(a, b)
    /\ UNCHANGED <<u, v, x, y, session, query>>

Mul ==
    /\ op = "init"
    /\ op' = "mul"
    /\ res' = Quantity_mul(a, b)
    /\ UNCHANGED <<u, v, x, y, session, query>>

TrueDiv ==
    /\ op = "init"
    /\ op' = "truediv"
    /\ res' = Quantity_truediv(a, b)
    /\ UNCHANGED <<u, v, x, y, session, query>>

QuantityEq ==
    /\ op = "init"
    /\ op' = "quantity_eq"
    /\ res' = Bool(Quantity_eq(a, b))
    /\ UNCHANGED <<u, v, x, y, session, query>>

Ordered(gt, eq) ==
    [kind |-> "ordering", rel |-> [r \in Relations |-> Ordering(r, gt, eq)]]

QuantityOrder ==
    /\ op = "init"
    /\ op' = "quantity_order"
    /\ res' = Ordered(Quantity_gt(a, b), Quantity_eq(a, b))
    /\ UNCHANGED <<u, v, x, y, session, query>>

UnitsEq ==
    /\ op = "init"
    /\ op' = "unit_eq"
    /\ res' = Bool(UnitEq(u, v))
    /\ UNCHANGED <<u, v, x, y, session, query>>

UnitsOrder ==
    /\ op = "init"
    /\ op' = "unit_order"
    /\ res' = Ordered(UnitGt(u, v), UnitEq(u, v))
    /\ UNCHANGED <<u, v, x, y, session, query>>

UnitsHash ==
    /\ op = "init"
    /\ op' = "unit_hash"
    /\ res' = [kind |-> "hashes", hu |-> UnitHash(u), hv |-> UnitHash(v)]
    /\ UNCHANGED <<u, v, x, y, session, query>>

UnitsMul ==
    /\ op = "init"
    /\ op' = "unit_mul"
    /\ res' = UnitMul(u, v)
    /\ UNCHANGED <<u, v, x, y, session, query>>

ImportName ==
    \E m \in QueriedModules, nm \in QueriedNames :
        /\ op = "init"
        /\ op' = "import"
        /\ res' = [kind |-> "import", module |-> m, name |-> nm,
                   outcome |-> Import(m, nm)]
        /\ UNCHANGED <<u, v, x, y, session, query>>

Mod ==
    /\ op = "init"
    /\ op' = "mod"
    /\ res' = Quantity_mod(a, b)
    /\ UNCHANGED <<u, v, x, y, session, query>>

DivMod ==
    /\ op = "init"
    /\ op' = "divmod"
    /\ res' = Quantity_divmod(a, b)
    /\ UNCHANGED <<u, v, x, y, session, query>>

\* a ** power; next to the result, which of its numbers Python holds as
\* float (the model keeps a float 1.0 and the Fraction 1 as one number)
Pow ==
    \E power \in PowerInputs :
        /\ op = "init"
        /\ op' = "pow"
        /\ res' = [kind |-> "power", power |-> power,
                   result |-> Quantity_pow(a, power),
                   float |-> [value |-> PowIsFloat(power),
                              factor |-> PowIsFloat(power),
                              exponents |-> FALSE]]
        /\ UNCHANGED <<u, v, x, y, session, query>>

FloorDiv ==
    /\ op = "init"
    /\ op' = "floordiv"
    /\ res' = Quantity_floordiv(a, b)
    /\ UNCHANGED <<u, v, x, y, session, query>>

Next ==
    \/ FloorDiv
    \/ Mod
    \/ DivMod
    \/ Pow
    \/ ConvertTo
    \/ ConvertBack
    \/ ConversionParametersTo
    \/ Add
    \/ Sub
    \/ Mul
    \/ TrueDiv
    \/ QuantityEq
    \/ QuantityOrder
    \/ UnitsEq
    \/ UnitsOrder
    \/ UnitsHash
    \/ UnitsMul
    \/ ImportName

Spec == Init /\ [][Next]_vars

(***************************************************************************)
(* A second client, of the unit algebra alone: it starts from a unit u and *)
(* applies up to MaxOps operations to the unit it holds in res; op is the  *)
(* sequence of the calls made, x the number passed as power or factor, y   *)
(* the number passed as offset and v the unit passed as second operand.    *)
(***************************************************************************)
IsUnit(r) == r.kind \in {"BaseUnit", "DerivedUnit"}

UnitInit ==
    /\ u \in UnitInputs \cup TestUnits
    /\ v \in UnitInputs
    /\ x \in NumberArgs
    /\ y \in OffsetArgs
    /\ op = <<>>
    /\ res = u
    /\ Startup

ThenMul ==
    /\ Len(op) < MaxOps
    /\ IsUnit(res)
    /\ op' = Append(op, "mul")
    /\ res' = UnitMul(res, v)
    /\ UNCHANGED <<u, v, x, y, session, query>>

ThenTrueDiv ==
    /\ Len(op) < MaxOps
    /\ IsUnit(res)
    /\ op' = Append(op, "truediv")
    /\ res' = UnitTrueDiv(res, v)
    /\ UNCHANGED <<u, v, x, y, session, query>>

\* res ** x; a non-integral power is drawn for the factor 1 only, where the
\* float it produces is 1.0
ThenPow ==
    /\ Len(op) < MaxOps
    /\ IsUnit(res)
    /\ x.d # 1 => res.factor = One
    /\ x.n < 0 => res.factor # Zero
    /\ Abs(res.factor.n) <= MaxFactor
    /\ res.factor.d <= MaxFactor
    /\ op' = Append(op, "pow")
    /\ res' = UnitPow(res, x)
    /\ UNCHANGED <<u, v, x, y, session, query>>

ThenInverse ==
    /\ Len(op) < MaxOps
    /\ IsUnit(res)
    /\ res.factor # Zero
    /\ op' = Append(op, "multiplicative_inverse")
    /\ res' = UnitInverse(res)
    /\ UNCHANGED <<u, v, x, y, session, query>>

\* res.as_derived_unit("named"), which is DerivedUnit.named for a DerivedUnit
ThenNamed ==
    /\ Len(op) < MaxOps
    /\ IsUnit(res)
    /\ op' = Append(op, "named")
    /\ res' = as_derived_unit(res, "named")
    /\ UNCHANGED <<u, v, x, y, session, query>>

\* DerivedUnit.using(res, "used", factor=x), with offset=y when y is not 0
ThenUsing ==
    /\ Len(op) < MaxOps
    /\ res.kind = "DerivedUnit"
    /\ x # Zero
    /\ op' = Append(op, "using")
    /\ res' = DerivedUnit_using_call(res, "used", x,
                                     IF y = Zero THEN {} ELSE {"offset"})
    /\ UNCHANGED <<u, v, x, y, session, query>>

\* res.si_factor() and res.si_offset() of the operand itself
SiParameters ==
    /\ op = <<>>
    /\ op' = <<"si_parameters">>
    /\ res' = [kind |-> "si", factor |-> si_factor(res), offset |-> si_offset(res)]
    /\ UNCHANGED <<u, v, x, y, session, query>>

AsQuantity ==
    /\ op = <<>>
    /\ op' = <<"as_quantity">>
    /\ res' = as_quantity(res)
    /\ UNCHANGED <<u, v, x, y, session, query>>

MakeMetricUnits ==
    /\ op = <<>>
    /\ op' = <<"make_metric_units">>
    /\ res' = make_metric_units(res)
    /\ UNCHANGED <<u, v, x, y, session, query>>

\* make_metric_units called with something that is not a unit: the
\* Quantity x * u
MakeMetricUnitsOfQuantity ==
    /\ op = <<>>
    /\ op' = <<"make_metric_units", "Quantity">>
    /\ res' = make_metric_units(UnitTimesReal(res, x))
    /\ UNCHANGED <<u, v, x, y, session, query>>

Str ==
    /\ op = <<>>
    /\ res.kind = "DerivedUnit"
    /\ op' = <<"str">>
    /\ res' = [kind |-> "text", text |-> DerivedUnit_str(res)]
    /\ UNCHANGED <<u, v, x, y, session, query>>

Repr ==
    /\ op = <<>>
    /\ res.kind = "DerivedUnit"
    /\ op' = <<"repr">>
    /\ res' = [kind |-> "text", text |-> DerivedUnit_repr(res)]
    /\ UNCHANGED <<u, v, x, y, session, query>>

UnitNext ==
    \/ Str
    \/ Repr
    \/ AsQuantity
    \/ MakeMetricUnits
    \/ MakeMetricUnitsOfQuantity
    \/ SiParameters
    \/ ThenMul
    \/ ThenTrueDiv
    \/ ThenPow
    \/ ThenInverse
    \/ ThenNamed
    \/ ThenUsing

UnitSpec == UnitInit /\ [][UnitNext]_vars

(***************************************************************************)
(* The calculator session: the user's keys act on the input widget at      *)
(* once; the messages the widget posts (Input.Changed, Input.Submitted)    *)
(* reach the app's handlers later, in the order they were posted.          *)
(***************************************************************************)
\* the HistoryInput widget as a record of its fields
line_input == [history |-> history, history_index |-> history_index, value |-> input_value]

\* the Input.Changed that the watcher of Input.value posts when the value changes
Changed(old, new) == IF new # old THEN <<"Changed">> ELSE <<>>

CliInit ==
    /\ u = dimensionless
    /\ v = dimensionless
    /\ x = Zero
    /\ y = Zero
    /\ op = "on_mount"
    /\ res = "returned"
    /\ Startup

\* the user edits the line
KeyEdit ==
    \E line \in Lines \cup {""} :
        /\ running
        /\ line # input_value
        /\ Len(messages) < MaxMessages
        /\ input_value' = line
        /\ messages' = messages \o Changed(input_value, line)
        /\ op' = "edit"
        /\ res' = "returned"
        /\ UNCHANGED <<query, u, v, x, y, classes, label, history, history_index,
                       evaluator_results, results, mounted, running>>

\* Enter: Input.action_submit posts Input.Submitted(self, self.value), which
\* HistoryInput.on_input_submitted handles first; a Submitted that the
\* handler posts itself is handled by it in turn
KeyEnter ==
    LET first == HistoryInput_on_input_submitted(line_input, input_value)
        again == HistoryInput_on_input_submitted(
                     [history |-> first.history,
                      history_index |-> first.history_index,
                      value |-> first.value], first.posted)
        last == IF first.posted = None THEN first ELSE again
        bubbled == (IF first.stop THEN <<>> ELSE <<"Submitted">>)
                   \o Changed(input_value, first.value)
                   \o (IF first.posted = None THEN <<>>
                       ELSE IF again.stop THEN <<>> ELSE <<"Submitted">>)
    IN  /\ running
        /\ Len(last.history) <= MaxHistory
        /\ Len(messages) + Len(bubbled) <= MaxMessages
        /\ history' = last.history
        /\ history_index' = last.history_index
        /\ input_value' = last.value
        /\ messages' = messages \o bubbled
        /\ op' = "on_input_submitted"
        /\ res' = IF first.stop THEN "stopped" ELSE "returned"
        /\ UNCHANGED <<query, u, v, x, y, classes, label, evaluator_results, results,
                       mounted, running>>

\* Up
KeyUp ==
    LET after == HistoryInput_action_history_back(line_input)
    IN  /\ running
        /\ Len(messages) + Len(Changed(input_value, after.value)) <= MaxMessages
        /\ history_index' = after.history_index
        /\ input_value' = after.value
        /\ messages' = messages \o Changed(input_value, after.value)
        /\ op' = "action_history_back"
        /\ res' = "returned"
        /\ UNCHANGED <<query, u, v, x, y, classes, label, history, evaluator_results,
                       results, mounted, running>>

\* Down
KeyDown ==
    LET after == HistoryInput_action_history_forward(line_input)
    IN  /\ running
        /\ Len(messages) + Len(Changed(input_value, after.value)) <= MaxMessages
        /\ history_index' = after.history_index
        /\ input_value' = after.value
        /\ messages' = messages \o Changed(input_value, after.value)
        /\ op' = "action_history_forward"
        /\ res' = "returned"
        /\ UNCHANGED <<query, u, v, x, y, classes, label, history, evaluator_results,
                       results, mounted, running>>

\* the app handles the oldest message, an Input.Changed
OnLineInputChanged ==
    LET out == DimansApp_on_line_input_changed(input_value, evaluator_results)
    IN  /\ running
        /\ messages # <<>>
        /\ Head(messages) = "Changed"
        /\ messages' = Tail(messages)
        /\ classes' = out.classes
        /\ label' = [text |-> IF out.update THEN out.text ELSE label.text,
                     classes |-> out.label_classes]
        /\ running' = (out.raised = None)
        /\ op' = "on_line_input_changed"
        /\ res' = IF out.raised = None THEN "returned" ELSE out.raised
        /\ UNCHANGED <<query, u, v, x, y, input_value, history, history_index,
                       evaluator_results, results, mounted>>

\* the app handles the oldest message, an Input.Submitted
OnLineInputSubmitted ==
    LET out == DimansApp_on_line_input_submitted(input_value, classes, evaluator_results)
        commit == out.kind = "commit"
        added == Results_add_result([results |-> results, mounted |-> mounted],
                                    out.triple[1], out.triple[2], out.triple[3])
    IN  /\ running
        /\ messages # <<>>
        /\ Head(messages) = "Submitted"
        /\ commit => Len(evaluator_results) < MaxResults
        /\ evaluator_results' = IF commit THEN Append(evaluator_results, out.triple)
                                ELSE evaluator_results
        /\ results' = IF commit THEN added.results ELSE results
        /\ mounted' = IF commit THEN added.mounted ELSE mounted
        /\ input_value' = IF commit THEN "" ELSE input_value
        /\ messages' = Tail(messages) \o (IF commit THEN Changed(input_value, "") ELSE <<>>)
        /\ running' = (out.kind # "exit")
        /\ op' = "on_line_input_submitted"
        /\ res' = IF out.kind = "exit" THEN "exit" ELSE "returned"
        /\ UNCHANGED <<query, u, v, x, y, classes, label, history, history_index>>

CliNext ==
    \/ KeyEdit
    \/ KeyEnter
    \/ KeyUp
    \/ KeyDown
    \/ OnLineInputChanged
    \/ OnLineInputSubmitted

CliSpec == CliInit /\ [][CliNext]_vars

(***************************************************************************)
(* The command palette: each character typed runs the search anew          *)
(***************************************************************************)
PaletteKey ==
    \E c \in QueryChars :
        /\ Len(query) < MaxQuery
        /\ query' = Append(query, c)
        /\ op' = "search"
        /\ res' = DimansIdents_search(query')
        /\ UNCHANGED <<u, v, x, y, session>>

PaletteNext == PaletteKey

PaletteSpec == CliInit /\ [][PaletteNext]_vars

(***************************************************************************)
(* Properties                                                              *)
(***************************************************************************)
SameDimensions == dimensions(u) = dimensions(v)

\* C1: converting a quantity to any unit of equal Dimensions succeeds, and
\* converting the result back to the original unit gives a Quantity in that
\* unit with the original value, which compares equal to the original.
C1_RoundTrip ==
    /\ (op = "convert_to" /\ SameDimensions) => res.kind = "Quantity"
    /\ op = "convert_back" =>
          /\ res.kind = "Quantity"
          /\ res.unit = a.unit
          /\ res.value = x
          /\ Quantity_eq(res, a)

C1_Witness ==
    /\ op = "convert_back"
    /\ res.kind = "Quantity"
    /\ si_offset(u) # Zero
    /\ si_factor(u) # si_factor(v)
    /\ x # Zero

\* C2: for units of equal Dimensions conversion_parameters_to returns
\* (factor, additive) with factor = A.si_factor()/B.si_factor() and additive
\* = 0 when both offsets are 0, else A.si_offset()*factor - B.si_offset(),
\* and convert_to returns Quantity(v*factor + additive, B).
C2_ConversionFormula ==
    LET factor == FrDiv(si_factor(u), si_factor(v))
        additive == IF si_offset(u) = Zero /\ si_offset(v) = Zero THEN Zero
                    ELSE FrSub(FrMul(si_offset(u), factor), si_offset(v))
    IN  /\ (op = "conversion_parameters_to" /\ SameDimensions) =>
              res = Params(factor, additive)
        /\ (op = "convert_to" /\ SameDimensions) =>
              res = Quantity(FrAdd(FrMul(x, factor), additive), AsDerived(v))

\* C3: the catalog binds celsius to kelvin with factor 1 and offset
\* 27315/100 and fahrenheit to kelvin with factor 5/9 and offset 45967/100;
\* 0 celsius converts to 27315/100 kelvin and 32 fahrenheit to 0 celsius.
C3_Catalog ==
    /\ (op = "import" /\ res.module = "si_derived_celsius" /\ res.name = "celsius") =>
          /\ res.outcome.kind = "unit"
          /\ res.outcome.unit.unit_exponents = <<Entry(kelvin, One)>>
          /\ res.outcome.unit.factor = One
          /\ res.outcome.unit.offset = Fraction(27315, 100)
    /\ (op = "import" /\ res.module = "us_fahrenheit" /\ res.name = "fahrenheit") =>
          /\ res.outcome.kind = "unit"
          /\ res.outcome.unit.unit_exponents = <<Entry(kelvin, One)>>
          /\ res.outcome.unit.factor = Fraction(5, 9)
          /\ res.outcome.unit.offset = Fraction(45967, 100)
    /\ (op = "convert_to" /\ u = celsius /\ v = kelvin /\ x = Zero) =>
          res = Quantity(Fraction(27315, 100), AsDerived(kelvin))
    /\ (op = "convert_to" /\ u = us_fahrenheit_celsius /\ v = celsius /\ x = Int2Fr(32)) =>
          res = Quantity(Zero, celsius)

\* C4: for quantities of equal Dimensions a + b is a Quantity in a.unit
\* whose value is a.value plus b's value converted into a.unit by the
\* conversion formula, and a - b is the same with b's value negated.
C4_AddConverts ==
    LET factor == FrDiv(si_factor(v), si_factor(u))
        additive == IF si_offset(v) = Zero /\ si_offset(u) = Zero THEN Zero
                    ELSE FrSub(FrMul(si_offset(v), factor), si_offset(u))
        converted(val) == FrAdd(FrMul(val, factor), additive)
    IN  /\ (op = "add" /\ SameDimensions) =>
              res = Quantity(FrAdd(x, converted(y)), a.unit)
        /\ (op = "sub" /\ SameDimensions) =>
              res = Quantity(FrAdd(x, converted(FrNeg(y))), a.unit)
        /\ (op = "add" /\ u = meter /\ v = foot /\ x = Int2Fr(5) /\ y = Int2Fr(3)) =>
              res = Quantity(Fraction(7393, 1250), AsDerived(meter))

\* C5: on operands of unequal Dimensions every ordering comparison,
\* convert_to, conversion_parameters_to, addition and subtraction raises the
\* dimension-mismatch error, while == returns False.
C5_DimensionMismatch ==
    ~SameDimensions =>
        /\ op \in {"quantity_order", "unit_order"} =>
              \A r \in Relations : res.rel[r] = Raise("ValueError")
        /\ op \in {"convert_to", "conversion_parameters_to", "add", "sub"} =>
              res = Raise("ValueError")
        /\ op \in {"quantity_eq", "unit_eq"} => res = Bool(FALSE)

C5_Witness ==
    /\ ~SameDimensions
    /\ op = "quantity_order"
    /\ res.rel["<="] = Raise("ValueError")
    /\ u = celsius
    /\ v = foot

\* C6: a * b and a / b return a bare number exactly when the Dimensions of
\* the composed unit (the sum, for division the difference, of the operands'
\* Dimensions) are empty, the number being the product of the values (b's
\* inverted for division) times the composed unit's factor; otherwise they
\* return a Quantity carrying the composed unit.  10 meter / 2 meter is 5.
C6_DimensionlessCollapse ==
    LET du == dimensions(u)
        dv == dimensions(v)
        keys == DOMAIN du \cup DOMAIN dv
        at(m, k) == IF k \in DOMAIN m THEN m[k] ELSE Zero
        composed(sign) ==
            LET total == [k \in keys |->
                             FrAdd(at(du, k), FrMul(Int2Fr(sign), at(dv, k)))]
            IN  [k \in {k \in keys : total[k] # Zero} |-> total[k]]
        fu == AsDerived(u).factor
        fv == AsDerived(v).factor
        holds(dims, value, factor) ==
            IF DOMAIN dims = {}
            THEN res = Number(FrMul(value, factor))
            ELSE /\ res.kind = "Quantity"
                 /\ res.value = value
                 /\ res.unit.factor = factor
                 /\ dimensions(res.unit) = dims
    IN  /\ op = "mul" => holds(composed(1), FrMul(x, y), FrMul(fu, fv))
        /\ (op = "truediv" /\ y # Zero) =>
              holds(composed(-1), FrDiv(x, y), FrDiv(fu, fv))
        /\ (op = "truediv" /\ u = meter /\ v = meter /\ x = Int2Fr(10) /\ y = Int2Fr(2)) =>
              res = Number(Int2Fr(5))

C6_Witness ==
    /\ op = "truediv"
    /\ u = decametre
    /\ v = foot
    /\ x = Int2Fr(10)
    /\ y = Int2Fr(2)
    /\ res = Number(Int2Fr(50))

\* C7: two Quantities are equal iff their Dimensions are equal and their SI
\* values (value + unit.si_offset()) * unit.si_factor() are equal; 0 celsius
\* is therefore not equal to 0 kelvin.
C7_QuantityEquality ==
    op = "quantity_eq" =>
        res.b = (/\ SameDimensions
                 /\ FrMul(FrAdd(x, si_offset(u)), si_factor(u))
                      = FrMul(FrAdd(y, si_offset(v)), si_factor(v)))

\* C8: two units, atomic or compound, are equal iff their Dimensions are
\* equal and their si_factor() values are equal; symbol and offset play no
\* part, and a compound unit with empty exponents equals no atomic unit.
C8_UnitEquality ==
    op = "unit_eq" =>
        /\ res.b = (SameDimensions /\ si_factor(u) = si_factor(v))
        /\ (u = dimensionless /\ v.kind = "BaseUnit") => res.b = FALSE

\* C9: equal units hash equally: u == v implies that hash(u) and hash(v)
\* are both defined and the same.
C9_HashCoarserThanEq ==
    (op = "unit_hash" /\ UnitEq(u, v)) =>
        /\ res.hu.kind = "hash"
        /\ res.hv.kind = "hash"
        /\ res.hu = res.hv

\* C10: for distinct declared atomic units X and Y of one Dimension D,
\* whatever their si_factor, the product of the compound units {X: a} and
\* {Y: b} keeps both entries and has Dimensions {D: a+b}, empty when a+b = 0.
C10_MergeKeepsBoth ==
    (/\ op = "unit_mul"
     /\ u.kind = "DerivedUnit" /\ Len(u.unit_exponents) = 1
     /\ v.kind = "DerivedUnit" /\ Len(v.unit_exponents) = 1
     /\ u.unit_exponents[1].u.id # v.unit_exponents[1].u.id
     /\ u.unit_exponents[1].u.dimension = v.unit_exponents[1].u.dimension) =>
        LET D == u.unit_exponents[1].u.dimension
            total == FrAdd(u.unit_exponents[1].e, v.unit_exponents[1].e)
        IN  /\ res.kind = "DerivedUnit"
            /\ res.unit_exponents = <<u.unit_exponents[1], v.unit_exponents[1]>>
            /\ dimensions(res) = IF total = Zero THEN EmptyMap
                                 ELSE [k \in {D} |-> total]

C10_Witness ==
    /\ op = "unit_mul"
    /\ u = dim_1_three_halves
    /\ v = alt_one_half
    /\ dimensions(res) = [k \in {"dim_1"} |-> Int2Fr(2)]

\* C11: canonical form is kept by the unit algebra: every DerivedUnit reached
\* from the canonical operands by multiply, divide, power (0 included),
\* multiplicative_inverse, named and using stores no zero exponent in
\* unit_exponents, and its dimension map stores no zero exponent.
C11_CanonicalForm ==
    res.kind = "DerivedUnit" =>
        /\ \A i \in 1..Len(res.unit_exponents) : res.unit_exponents[i].e # Zero
        /\ \A k \in DOMAIN DerivedUnit_dimension_map(res) :
               DerivedUnit_dimension_map(res)[k] # Zero

\* C12: multiplicative_inverse() of a DerivedUnit with offset 0 returns a
\* DerivedUnit with every exponent negated and factor 1/factor; on a
\* DerivedUnit with nonzero offset it raises and returns no unit.
C12_InverseLaw ==
    (op = <<"multiplicative_inverse">> /\ u.kind = "DerivedUnit") =>
        IF si_offset(u) = Zero
        THEN /\ res.kind = "DerivedUnit"
             /\ Len(res.unit_exponents) = Len(u.unit_exponents)
             /\ \A i \in 1..Len(u.unit_exponents) :
                   /\ res.unit_exponents[i].u = u.unit_exponents[i].u
                   /\ FrAdd(res.unit_exponents[i].e, u.unit_exponents[i].e) = Zero
             /\ FrMul(res.factor, u.factor) = One
        ELSE res.kind = "raise"

\* C13: DerivedUnit.using(ref, symbol, factor=f, offset=o) returns a
\* DerivedUnit with ref's unit_exponents, factor ref.factor * f and offset
\* ref.offset + o; with the defaults f = 1 and o = 0 it has exactly ref's
\* factor and offset.
C13_UsingLaw ==
    (op = <<"using">> /\ u.kind = "DerivedUnit") =>
        /\ res.kind = "DerivedUnit"
        /\ res.symbol = "used"
        /\ res.unit_exponents = u.unit_exponents
        /\ res.factor = FrMul(u.factor, x)
        /\ res.offset = FrAdd(u.offset, y)
        /\ (x = One /\ y = Zero) => (res.factor = u.factor /\ res.offset = u.offset)

C15_AsQuantity ==
    (op = <<"as_quantity">> /\ u.kind = "DerivedUnit") =>
        /\ res.kind = "Quantity"
        /\ IF si_offset(u) = Zero
           THEN res.value = One /\ res.unit = u
           ELSE /\ res.value = Zero
                /\ res.unit = [u EXCEPT !.offset = Zero]

\* C16: make_metric_units(u) returns 23 units, the i-th built from the i-th
\* prefix in quetta-to-quecto order with symbol prefix.symbol + u.symbol;
\* for a BaseUnit u of any si_factor the i-th si_factor() is
\* u.si_factor() * prefix.factor; for a (named) DerivedUnit c the i-th has
\* c's exponents and factor c.factor * prefix.factor; any other kind of
\* argument raises TypeError.
C16_MetricUnits ==
    LET symbols == << "Q", "Y", "Z", "E", "P", "T", "G", "M", "k", "h", "da",
                      "d", "c", "m", "μ", "n", "p", "f", "a", "z", "y", "r", "q" >>
        tens == << 30, 24, 21, 18, 15, 12, 9, 6, 3, 2, 1,
                   -1, -2, -3, -6, -9, -12, -15, -18, -21, -24, -27, -30 >>
    IN  /\ (op = <<"make_metric_units">> /\ u.symbol # None) =>
              /\ res.kind = "list"
              /\ Len(res.items) = 23
              /\ \A i \in 1..23 :
                    /\ res.items[i].kind = u.kind
                    /\ res.items[i].symbol = symbols[i] \o u.symbol
                    /\ res.items[i].factor = Scaled(u.factor, tens[i])
                    /\ u.kind = "DerivedUnit" =>
                          res.items[i].unit_exponents = u.unit_exponents
        /\ op = <<"make_metric_units", "Quantity">> => res = Raise("TypeError")

\* C17: for Quantities a and b of equal Dimensions but different units,
\* a % b and the remainder of divmod(a, b) are Quantities in a.unit: b is
\* converted into a.unit (b.value * factor + additive) and the modulo is
\* taken of the two values.
C17_ModInLeftUnit ==
    LET p == conversion_parameters_to(b.unit, a.unit)
        converted == FrAdd(FrMul(y, p.factor), p.additive)
        remainder == IF op = "mod" THEN res ELSE res.mod
    IN  (/\ op \in {"mod", "divmod"}
         /\ SameDimensions
         /\ a.unit # b.unit
         /\ converted # Zero) =>
            /\ res.kind = IF op = "mod" THEN "Quantity" ELSE "tuple"
            /\ remainder.kind = "Quantity"
            /\ remainder.unit = a.unit
            /\ remainder.value = FrMod(x, converted)

UnnamedForm ==
    LET n == Len(u.unit_exponents)
        entry(i) == IF u.unit_exponents[i].e = One
                    THEN u.unit_exponents[i].u.symbol
                    ELSE u.unit_exponents[i].u.symbol \o "^" \o FrStr(u.unit_exponents[i].e)
        Upto[i \in 0..n] ==
            IF i = 0 THEN ""
            ELSE IF i = 1 THEN entry(1)
            ELSE Upto[i - 1] \o " " \o entry(i)
        multiplicands == IF n = 0 THEN "1" ELSE Upto[n]
        prefix == IF u.factor # One THEN FrStr(u.factor) \o " " ELSE ""
        suffix == IF u.offset # Zero THEN " + " \o FrStr(u.offset) ELSE ""
    IN  prefix \o multiplicands \o suffix

\* C19: str() of a DerivedUnit is its symbol alone when the symbol is
\* non-empty, whatever the factor and offset; otherwise it is the unnamed
\* form described above.
C19_Str ==
    op = <<"str">> =>
        res.text = IF u.symbol # None THEN u.symbol ELSE UnnamedForm

\* C20: repr() of a DerivedUnit is "<DerivedUnit U>" without symbol and
\* "<DerivedUnit S = U>" with symbol S, U being the unnamed form, in which
\* the factor appears once (iff factor != 1) and the offset once (iff
\* offset != 0); factor 9, offset 6, no exponents: "<DerivedUnit 9 1 + 6>".
C20_Repr ==
    op = <<"repr">> =>
        /\ res.text = IF u.symbol # None
                      THEN "<DerivedUnit " \o u.symbol \o " = " \o UnnamedForm \o ">"
                      ELSE "<DerivedUnit " \o UnnamedForm \o ">"
        /\ u = dimensionless_nine_plus_six => res.text = "<DerivedUnit 9 1 + 6>"

\* C28: conversion preserves the SI value under the pre-scale offset
\* convention: for units A and B of equal Dimensions and any value, the
\* value w of Quantity(value, A).convert_to(B) satisfies
\* (w + B.si_offset()) * B.si_factor() = (value + A.si_offset()) * A.si_factor().
C28_SiValuePreserved ==
    (op = "convert_to" /\ SameDimensions) =>
        /\ res.kind = "Quantity"
        /\ FrMul(FrAdd(res.value, si_offset(v)), si_factor(v))
              = FrMul(FrAdd(x, si_offset(u)), si_factor(u))

\* C29: the bare number returned by dividing two Quantities of equal
\* Dimensions in offset-free units is their physical ratio,
\* (a.value * a.unit.si_factor()) / (b.value * b.unit.si_factor()).
C29_PhysicalRatio ==
    (/\ op = "truediv"
     /\ SameDimensions
     /\ si_offset(u) = Zero
     /\ si_offset(v) = Zero
     /\ y # Zero) =>
        res = Number(FrDiv(FrMul(x, si_factor(u)), FrMul(y, si_factor(v))))

\* C30: for Quantities a and b of equal Dimensions and nonzero b, a // b
\* equals the first component of divmod(a, b), and
\* a == (a // b) * b + (a % b).
C30_FloorDivAgrees ==
    (op = "floordiv" /\ SameDimensions /\ y # Zero) =>
        LET dm == Quantity_divmod(a, b)
            rem == Quantity_mod(a, b)
        IN  /\ res.kind = "number"
            /\ dm.kind = "tuple"
            /\ res.value = Int2Fr(dm.div)
            /\ rem.kind = "Quantity"
            /\ Quantity_eq(a, Quantity_add(Quantity_rmul_Real(b, res.value), rem))

\* C21: a submit changes the session (input, evaluator history, results
\* pane) iff the input carries the success mark and the line parses and
\* evaluates again; it then appends one (source text, parsed form, result)
\* triple to the evaluator history and the same triple to the pane's list
\* and clears the input.  The two lists keep equal length and the entries
\* already stored are never modified, reordered or removed.
C21_Commit ==
    [][/\ Len(results') = Len(evaluator_results')
       /\ Len(evaluator_results') >= Len(evaluator_results)
       /\ SubSeq(evaluator_results', 1, Len(evaluator_results)) = evaluator_results
       /\ SubSeq(results', 1, Len(results)) = results
       /\ op' # "on_line_input_submitted" => UNCHANGED <<evaluator_results, results>>
       /\ op' = "on_line_input_submitted" =>
             LET parsed == parser_parse(input_value)
                 evaled == evaluator_transform(parsed, evaluator_results)
                 honoured == /\ "success" \in classes
                             /\ ~IsRaise(parsed)
                             /\ evaled.kind = "number"
                 triple == <<input_value, parsed, evaled>>
             IN  /\ honoured <=> <<input_value, evaluator_results, results, mounted>>'
                                    # <<input_value, evaluator_results, results, mounted>>
                 /\ honoured => /\ evaluator_results' = Append(evaluator_results, triple)
                                /\ results' = Append(results, triple)
                                /\ input_value' = ""]_vars

C21_Witness ==
    /\ op = "on_line_input_submitted"
    /\ Len(evaluator_results) = 2
    /\ results = evaluator_results
    /\ evaluator_results[2][1] = "r(0)"
    /\ input_value = ""

\* C22: after the live-validation pass for a non-empty line the input
\* carries exactly one of the marks success and error: success iff the line
\* parses and either contains an exit call or evaluates without failure,
\* error iff parsing or evaluation fails; for an empty line it carries
\* neither, and it never carries both.
C22_Marks ==
    (op = "on_line_input_changed" /\ res = "returned") =>
        LET parsed == parser_parse(input_value)
            evaled == evaluator_transform(parsed, evaluator_results)
            good == /\ ~IsRaise(parsed)
                    /\ \/ \E i \in 1..Len(parsed.func) : parsed.func[i] = "exit"
                       \/ ~IsRaise(evaled)
        IN  /\ input_value # "" => /\ ("success" \in classes) <=> good
                                   /\ ("error" \in classes) <=> ~good
            /\ input_value = "" => classes = {}
            /\ ~({"success", "error"} \subseteq classes)

\* C23: a line whose parsing or evaluation fails never ends the session and
\* never alters it: the input-changed handler and the submit handler both
\* return normally for it, the evaluator history and the results pane are
\* unchanged and the input text is not cleared.
C23_BadLineHarmless ==
    [][LET parsed == parser_parse(input_value)
           evaled == evaluator_transform(parsed, evaluator_results)
           fails == IsRaise(parsed) \/ IsRaise(evaled)
       IN  (op' \in {"on_line_input_changed", "on_line_input_submitted"} /\ fails) =>
               /\ res' = "returned"
               /\ running'
               /\ UNCHANGED <<input_value, evaluator_results, results, mounted>>]_vars

\* C24: the row of the k-th committed result (k from 0, in commit order) is
\* labelled r(k), the index by which r(k) recalls it, both in the rows
\* mounted on commit and in the rows composed from the stored list; the
\* rows are newest first, so with n+1 results the top one is r(n).
C24_Labels ==
    LET n == Len(results)
        row(k) == Row("r(" \o ToString(k) \o ")",
                      results[k + 1][1], results[k + 1][2], results[k + 1][3])
        newest_first == [i \in 1..n |-> row(n - i)]
    IN  /\ mounted = newest_first
        /\ Results_compose(results) = newest_first
        /\ n > 0 => evaluator_transform(parser_parse("r(0)"), evaluator_results)
                        = results[1][3]

\* C25: the recall cursor history_index stays within 0..len(history); an Up
\* that moves it to k >= 1 puts the k-th most recently submitted line in
\* the input, an Up at k = len(history) leaves the text unchanged, a Down
\* from k > 1 shows the (k-1)-th most recent line, a Down from k = 1 clears
\* the input, a Down at k = 0 changes nothing, and every non-empty submit
\* resets the cursor to 0.
C25_Recall ==
    [][LET n == Len(history)
           k == history_index
           recent(j) == history[n - j + 1]
       IN  /\ history_index' \in 0..Len(history')
           /\ op' = "action_history_back" =>
                 IF k < n
                 THEN history_index' = k + 1 /\ input_value' = recent(k + 1)
                 ELSE history_index' = k /\ input_value' = input_value
           /\ op' = "action_history_forward" =>
                 IF k > 1
                 THEN history_index' = k - 1 /\ input_value' = recent(k - 1)
                 ELSE IF k = 1
                      THEN history_index' = 0 /\ input_value' = ""
                      ELSE UNCHANGED <<history_index, input_value>>
           /\ (op' = "on_input_submitted" /\ input_value # "") =>
                 history_index' = 0]_vars

C25_Witness ==
    /\ op = "action_history_forward"
    /\ Len(history) = 2
    /\ history[1] # history[2]
    /\ history_index = 1
    /\ input_value = history[2]
    /\ messages = <<"Changed", "Changed">>

\* C26: submitting an empty input never evaluates an empty expression and
\* never stores an empty string among the submitted lines: when that list
\* is non-empty the empty submit is stopped and replaced by exactly one
\* submit of the most recently submitted line, and when it is empty nothing
\* changes.
C26_EmptySubmit ==
    [][/\ \A i \in 1..Len(history') : history'[i] # ""
       /\ (op' = "on_input_submitted" /\ input_value = "") =>
             IF history # <<>>
             THEN /\ res' = "stopped"
                  /\ input_value' = history[Len(history)]
                  /\ history' = Append(history, history[Len(history)])
                  /\ messages' = messages \o <<"Changed", "Submitted">>
             ELSE /\ res' = "returned"
                  /\ messages' = Append(messages, "Submitted")
                  /\ UNCHANGED <<input_value, classes, label, history, history_index,
                                 evaluator_results, results, mounted>>
       /\ (op' = "on_line_input_submitted" /\ input_value = "") =>
             UNCHANGED <<input_value, classes, label, evaluator_results, results,
                         mounted>>]_vars

C26_Witness ==
    /\ op = "on_input_submitted"
    /\ res = "stopped"
    /\ Len(history) = 2
    /\ history[1] = history[2]
    /\ input_value = history[2]
    /\ messages = <<"Changed", "Submitted">>

\* C27: the command-palette search yields no hit for a query shorter than
\* 3 characters; for a longer query it completes without failure and
\* yields, for every catalog identifier with a positive fuzzy-match score,
\* a hit carrying the identifier's text and its help line, and no hit for
\* identifiers whose score is not positive.
C27_Search ==
    op = "search" =>
        /\ Len(query) < 3 => res.hits = <<>>
        /\ Len(query) >= 3 =>
              /\ res.raised = None
              /\ \A i \in 1..Len(precalculated_list) :
                    (Matcher_match(query, precalculated_list[i].chars) > 0)
                    <=> \E h \in 1..Len(res.hits) :
                            /\ res.hits[h].text = precalculated_list[i].ident_name
                            /\ res.hits[h].help = precalculated_list[i].help_text

====
